---- MODULE Spec2Model ----
(***************************************************************************)
(* Model of the ACDSYN configuration module (config.py): the settings      *)
(* class ACDSYNConfig, its validators, the module-level singleton _config, *)
(* get_config() and load_yaml_config().                                    *)
(*                                                                         *)
(* Floats are modelled in tenths (0.7 is 7, 1.5 is 15).  Environment       *)
(* values are strings; Absent marks an unset variable.                     *)
(***************************************************************************)
EXTENDS Integers, Sequences, FiniteSets, TLC

\* ---------------------------------------------------------------- bounds
NThreads == 2
MaxCalls == 2
MaxConcCalls == 1
MaxEnvChanges == 1

\* ------------------------------------------------------------ vocabulary
Absent == "<absent>"
None == 0

K_PROJECT == "FIREBASE_PROJECT_ID"
K_CREDS == "FIREBASE_CREDENTIALS_PATH"
K_PERF == "PERFORMANCE_THRESHOLD"
K_LEVEL == "LOG_LEVEL"
K_FORMAT == "LOG_FORMAT"
K_STRATEGY == "DEFAULT_STRATEGY"
K_COMPAT == "COMPATIBILITY_THRESHOLD"
K_DOMAINS == "DOMAIN_CONFIGS"

\* The settings fields the model follows, in declaration order.
EnvKeys == {K_PROJECT, K_CREDS, K_PERF, K_LEVEL, K_FORMAT, K_STRATEGY, K_COMPAT, K_DOMAINS}

CredsFile == "/tmp/creds.json"
YamlGood == "/etc/acdsyn/extra.yaml"
YamlBad == "/etc/acdsyn/broken.yaml"
YamlMissing == "/etc/acdsyn/none.yaml"

\* Raw strings a variable may hold in the environment or in the .env file.
EnvValues(k) ==
    CASE k = K_PROJECT -> {"proj1", "proj2"}
      [] k = K_CREDS -> {CredsFile}
      [] k = K_PERF -> {"0.5", "1.5"}
      [] k = K_LEVEL -> {"DEBUG", "TRACE"}
      [] k = K_FORMAT -> {"text", "xml"}
      [] k = K_STRATEGY -> {"parallel", "random"}
      [] k = K_COMPAT -> {"0.0", "1.0", "1.5", "-0.5", "abc"}
      [] k = K_DOMAINS -> {"{finance:{}}", "{gaming:{}}"}

\* ------------------------------------------------------------ enum types
DomainType == {"data_science", "software_engineering", "research", "automation", "finance", "healthcare"}

SynthesisStrategy == {"parallel", "sequential", "hybrid", "emergent"}

LogLevel == {"DEBUG", "INFO", "WARNING", "ERROR", "CRITICAL"}

\* ------------------------------------------------------ field defaults
DefaultPerformanceThreshold == 8
DefaultCompatibilityThreshold == 7
DefaultLogLevel == "INFO"
DefaultLogFormat == "json"
DefaultStrategy == "hybrid"
DefaultDomainConfigs == {"data_science", "software_engineering"}

\* ------------------------------------------------------------ coercions
\* float(): the strings the model uses, in tenths; anything else is not a float.
FloatTable == [s \in {"0.0", "0.5", "0.7", "0.8", "1.0", "1.5", "-0.5"} |->
    CASE s = "0.0" -> 0
      [] s = "0.5" -> 5
      [] s = "0.7" -> 7
      [] s = "0.8" -> 8
      [] s = "1.0" -> 10
      [] s = "1.5" -> 15
      [] s = "-0.5" -> -5]

IsFloat(s) == s \in DOMAIN FloatTable

ParseFloat(s) == FloatTable[s]

\* The JSON object a DOMAIN_CONFIGS value decodes to, as its set of keys.
JsonKeys(s) ==
    CASE s = "{finance:{}}" -> {"finance"}
      [] s = "{gaming:{}}" -> {"gaming"}
      [] OTHER -> {}

\* ------------------------------------------------------------- instances
\* Field values of an object whose __init__ has not populated it.
NullVal == [firebase_project_id |-> Absent, firebase_credentials_path |-> Absent,
            performance_threshold |-> 0, log_level |-> Absent, log_format |-> Absent,
            default_strategy |-> Absent, compatibility_threshold |-> 0,
            domain_configs |-> {}]

NoErrs == {}

\* ------------------------------------------------------- source resolving
\* load_dotenv(): copy the .env entries into os.environ, never overriding.
LoadDotenv(e, f) == [k \in EnvKeys |-> IF e[k] # Absent THEN e[k] ELSE f[k]]

\* BuildValues with the .env file taking precedence over the environment.
BuildValuesFileFirst(e, f) == [k \in EnvKeys |-> IF f[k] # Absent THEN f[k] ELSE e[k]]

\* BaseSettings._build_values: environment over .env file; Absent when in neither.
BuildValues(e, f) == [k \in EnvKeys |-> IF e[k] # Absent THEN e[k] ELSE f[k]]

\* ------------------------------------------------------------ validators
\* validate_credentials_path: the file must exist.
validate_credentials_path(v, files) == v \in files

\* validate_threshold: 0 <= v <= 1.
validate_threshold(v) == 0 <= v /\ v <= 10

\* FieldErrors with the two Firebase fields optional instead of required.
FieldErrorsNoRequired(r) ==
    {<<"performance_threshold", "type_error.float">> :
            x \in IF r[K_PERF] # Absent /\ ~IsFloat(r[K_PERF]) THEN {1} ELSE {}}
    \cup {<<"log_level", "type_error.enum">> :
            x \in IF r[K_LEVEL] # Absent /\ r[K_LEVEL] \notin LogLevel THEN {1} ELSE {}}
    \cup {<<"default_strategy", "type_error.enum">> :
            x \in IF r[K_STRATEGY] # Absent /\ r[K_STRATEGY] \notin SynthesisStrategy THEN {1} ELSE {}}
    \cup {<<"compatibility_threshold", "type_error.float">> :
            x \in IF r[K_COMPAT] # Absent /\ ~IsFloat(r[K_COMPAT]) THEN {1} ELSE {}}
    \cup {<<"compatibility_threshold", "value_error">> :
            x \in IF r[K_COMPAT] # Absent /\ IsFloat(r[K_COMPAT])
                     /\ ~validate_threshold(ParseFloat(r[K_COMPAT])) THEN {1} ELSE {}}
    \cup {<<"domain_configs", "type_error.enum">> :
            x \in IF r[K_DOMAINS] # Absent /\ ~(JsonKeys(r[K_DOMAINS]) \subseteq DomainType)
                  THEN {1} ELSE {}}

\* FieldErrors with log_level declared as a plain string.
FieldErrorsLevelUnchecked(r) ==
    {<<"firebase_project_id", "missing">> : x \in IF r[K_PROJECT] = Absent THEN {1} ELSE {}}
    \cup {<<"firebase_credentials_path", "missing">> : x \in IF r[K_CREDS] = Absent THEN {1} ELSE {}}
    \cup {<<"performance_threshold", "type_error.float">> :
            x \in IF r[K_PERF] # Absent /\ ~IsFloat(r[K_PERF]) THEN {1} ELSE {}}
    \cup {<<"default_strategy", "type_error.enum">> :
            x \in IF r[K_STRATEGY] # Absent /\ r[K_STRATEGY] \notin SynthesisStrategy THEN {1} ELSE {}}
    \cup {<<"compatibility_threshold", "type_error.float">> :
            x \in IF r[K_COMPAT] # Absent /\ ~IsFloat(r[K_COMPAT]) THEN {1} ELSE {}}
    \cup {<<"compatibility_threshold", "value_error">> :
            x \in IF r[K_COMPAT] # Absent /\ IsFloat(r[K_COMPAT])
                     /\ ~validate_threshold(ParseFloat(r[K_COMPAT])) THEN {1} ELSE {}}
    \cup {<<"domain_configs", "type_error.enum">> :
            x \in IF r[K_DOMAINS] # Absent /\ ~(JsonKeys(r[K_DOMAINS]) \subseteq DomainType)
                  THEN {1} ELSE {}}

\* Errors pydantic collects for the raw values r (field, kind).
FieldErrors(r) ==
    {<<"firebase_project_id", "missing">> : x \in IF r[K_PROJECT] = Absent THEN {1} ELSE {}}
    \cup {<<"firebase_credentials_path", "missing">> : x \in IF r[K_CREDS] = Absent THEN {1} ELSE {}}
    \cup {<<"performance_threshold", "type_error.float">> :
            x \in IF r[K_PERF] # Absent /\ ~IsFloat(r[K_PERF]) THEN {1} ELSE {}}
    \cup {<<"log_level", "type_error.enum">> :
            x \in IF r[K_LEVEL] # Absent /\ r[K_LEVEL] \notin LogLevel THEN {1} ELSE {}}
    \cup {<<"default_strategy", "type_error.enum">> :
            x \in IF r[K_STRATEGY] # Absent /\ r[K_STRATEGY] \notin SynthesisStrategy THEN {1} ELSE {}}
    \cup {<<"compatibility_threshold", "type_error.float">> :
            x \in IF r[K_COMPAT] # Absent /\ ~IsFloat(r[K_COMPAT]) THEN {1} ELSE {}}
    \cup {<<"compatibility_threshold", "value_error">> :
            x \in IF r[K_COMPAT] # Absent /\ IsFloat(r[K_COMPAT])
                     /\ ~validate_threshold(ParseFloat(r[K_COMPAT])) THEN {1} ELSE {}}
    \cup {<<"domain_configs", "type_error.enum">> :
            x \in IF r[K_DOMAINS] # Absent /\ ~(JsonKeys(r[K_DOMAINS]) \subseteq DomainType)
                  THEN {1} ELSE {}}

\* Field values of the instance built from valid raw values r.
Coerce(r) ==
    [firebase_project_id |-> r[K_PROJECT],
     firebase_credentials_path |-> r[K_CREDS],
     performance_threshold |-> IF r[K_PERF] = Absent THEN DefaultPerformanceThreshold
                               ELSE ParseFloat(r[K_PERF]),
     log_level |-> IF r[K_LEVEL] = Absent THEN DefaultLogLevel ELSE r[K_LEVEL],
     log_format |-> IF r[K_FORMAT] = Absent THEN DefaultLogFormat ELSE r[K_FORMAT],
     default_strategy |-> IF r[K_STRATEGY] = Absent THEN DefaultStrategy ELSE r[K_STRATEGY],
     compatibility_threshold |-> IF r[K_COMPAT] = Absent THEN DefaultCompatibilityThreshold
                                 ELSE ParseFloat(r[K_COMPAT]),
     domain_configs |-> IF r[K_DOMAINS] = Absent THEN DefaultDomainConfigs
                        ELSE JsonKeys(r[K_DOMAINS])]

\* Outcome of ACDSYNConfig() on raw values r with the files that exist:
\* FileNotFoundError leaves the validator at once (pydantic only collects
\* ValueError, TypeError and AssertionError); other errors are collected into
\* one ValidationError.
Construct(r, files) ==
    IF r[K_CREDS] # Absent /\ ~validate_credentials_path(r[K_CREDS], files)
    THEN [ok |-> FALSE, cause |-> "FileNotFoundError", errs |-> NoErrs, val |-> NullVal]
    ELSE IF FieldErrors(r) # {}
    THEN [ok |-> FALSE, cause |-> "ValidationError", errs |-> FieldErrors(r), val |-> NullVal]
    ELSE [ok |-> TRUE, cause |-> "", errs |-> NoErrs, val |-> Coerce(r)]

\* ----------------------------------------------------------------- state
VARIABLES
    procs,      \* the threads of the process
    startEnv,   \* os.environ as the process was started
    env,        \* os.environ
    dotenv,     \* contents of the .env file
    fs,         \* paths that exist on the filesystem
    _config,    \* the module-level singleton: None or a reference into heap
    heap,       \* the ACDSYNConfig objects allocated so far
    pc,         \* per thread: position inside get_config
    raw,        \* per thread: values gathered by the constructor in flight
    obj,        \* per thread: the object under construction
    rets,       \* per thread: what its get_config calls returned or raised
    yamlRet,    \* per thread: outcome of its last load_yaml_config
    envChanges, \* number of environment and filesystem changes made
    budget      \* per thread: get_config calls it may still start

vars == <<procs, startEnv, env, dotenv, fs, _config, heap, pc, raw, obj, rets, yamlRet, envChanges, budget>>

Threads == 1..NThreads

NoRaw == [k \in EnvKeys |-> Absent]

EmptyEnv == [k \in EnvKeys |-> Absent]

ValidEnv == [EmptyEnv EXCEPT ![K_PROJECT] = "proj1", ![K_CREDS] = CredsFile]

\* Variables a thread of the process reassigns in os.environ.
MutableKeys == {K_PROJECT, K_COMPAT}

\* Values they assign (Absent: the variable is deleted).
Assigned(k) == IF k = K_PROJECT THEN {"proj1", Absent} ELSE {"1.5"}

\* Content of the supplementary YAML files.
YamlContent(path) == IF path = YamlGood THEN "{max_components: 10}" ELSE "{max_components: [10"

\* yaml.safe_load: the mapping the text denotes, or a parse error.
safe_load(text) == IF text = "{max_components: 10}" THEN "max_components=10" ELSE "YAMLError"

Done(t) == [pc EXCEPT ![t] = "idle"]

\* ------------------------------------------------------------ get_config
\* A thread enters get_config().
Call(t) ==
    /\ pc[t] = "idle"
    /\ budget[t] > 0
    /\ budget' = [budget EXCEPT ![t] = @ - 1]
    /\ pc' = [pc EXCEPT ![t] = "check"]
    /\ UNCHANGED <<procs, startEnv, env, dotenv, fs, _config, heap, raw, obj, rets, yamlRet, envChanges>>

\* Check without the cache test: every call constructs.
CheckNoCache(t) ==
    /\ pc[t] = "check"
    /\ pc' = [pc EXCEPT ![t] = "build"]
    /\ UNCHANGED <<procs, startEnv, env, dotenv, fs, _config, heap, raw, obj, rets, yamlRet, envChanges, budget>>

\* if _config is None
Check(t) ==
    /\ pc[t] = "check"
    /\ pc' = [pc EXCEPT ![t] = IF _config = None THEN "build" ELSE "return"]
    /\ UNCHANGED <<procs, startEnv, env, dotenv, fs, _config, heap, raw, obj, rets, yamlRet, envChanges, budget>>

\* Build that publishes the object in _config as soon as it is allocated.
BuildPublish(t) ==
    /\ pc[t] = "build"
    /\ heap' = Append(heap, [complete |-> FALSE, val |-> NullVal])
    /\ obj' = [obj EXCEPT ![t] = Len(heap) + 1]
    /\ _config' = Len(heap) + 1
    /\ raw' = [raw EXCEPT ![t] = BuildValues(env, dotenv)]
    /\ pc' = [pc EXCEPT ![t] = "validate"]
    /\ UNCHANGED <<procs, startEnv, env, dotenv, fs, rets, yamlRet, envChanges, budget>>

\* ACDSYNConfig(): the object is allocated and the constructor gathers the
\* raw values from the environment and the .env file.
Build(t) ==
    /\ pc[t] = "build"
    /\ heap' = Append(heap, [complete |-> FALSE, val |-> NullVal])
    /\ obj' = [obj EXCEPT ![t] = Len(heap) + 1]
    /\ raw' = [raw EXCEPT ![t] = BuildValues(env, dotenv)]
    /\ pc' = [pc EXCEPT ![t] = "validate"]
    /\ UNCHANGED <<procs, startEnv, env, dotenv, fs, _config, rets, yamlRet, envChanges, budget>>

\* Validate that caches the object in _config even when validation failed.
ValidateCacheFailed(t) ==
    /\ pc[t] = "validate"
    /\ LET c == Construct(raw[t], fs) IN
         IF c.ok
         THEN /\ heap' = [heap EXCEPT ![obj[t]] = [complete |-> TRUE, val |-> c.val]]
              /\ pc' = [pc EXCEPT ![t] = "assign"]
              /\ UNCHANGED <<obj, rets, _config>>
         ELSE /\ rets' = [rets EXCEPT ![t] = Append(@, [kind |-> "error", ref |-> None,
                                val |-> NullVal, cause |-> c.cause, errs |-> c.errs])]
              /\ pc' = Done(t)
              /\ _config' = obj[t]
              /\ obj' = [obj EXCEPT ![t] = None]
              /\ UNCHANGED heap
    /\ raw' = [raw EXCEPT ![t] = NoRaw]
    /\ UNCHANGED <<procs, startEnv, env, dotenv, fs, yamlRet, envChanges, budget>>

\* ACDSYNConfig(): the fields are validated; the object is populated only when
\* every check passed, otherwise get_config raises RuntimeError from the cause.
Validate(t) ==
    /\ pc[t] = "validate"
    /\ LET c == Construct(raw[t], fs) IN
         IF c.ok
         THEN /\ heap' = [heap EXCEPT ![obj[t]] = [complete |-> TRUE, val |-> c.val]]
              /\ pc' = [pc EXCEPT ![t] = "assign"]
              /\ UNCHANGED <<obj, rets>>
         ELSE /\ rets' = [rets EXCEPT ![t] = Append(@, [kind |-> "error", ref |-> None,
                                val |-> NullVal, cause |-> c.cause, errs |-> c.errs])]
              /\ pc' = Done(t)
              /\ obj' = [obj EXCEPT ![t] = None]
              /\ UNCHANGED heap
    /\ raw' = [raw EXCEPT ![t] = NoRaw]
    /\ UNCHANGED <<procs, startEnv, env, dotenv, fs, _config, yamlRet, envChanges, budget>>

\* _config = <the new instance>
Assign(t) ==
    /\ pc[t] = "assign"
    /\ _config' = obj[t]
    /\ obj' = [obj EXCEPT ![t] = None]
    /\ pc' = [pc EXCEPT ![t] = "return"]
    /\ UNCHANGED <<procs, startEnv, env, dotenv, fs, heap, raw, rets, yamlRet, envChanges, budget>>

\* return _config
Return(t) ==
    /\ pc[t] = "return"
    /\ rets' = [rets EXCEPT ![t] = Append(@, [kind |-> "ok", ref |-> _config,
                      val |-> heap[_config].val, cause |-> "", errs |-> NoErrs])]
    /\ pc' = Done(t)
    /\ UNCHANGED <<procs, startEnv, env, dotenv, fs, _config, heap, raw, obj, yamlRet, envChanges, budget>>

\* ------------------------------------------------------ load_yaml_config
\* load_yaml_config that merges what it loaded into the cached instance.
LoadYamlMerge(t, path) ==
    /\ pc[t] = "idle"
    /\ yamlRet' = [yamlRet EXCEPT ![t] =
            IF path \notin fs THEN "FileNotFoundError" ELSE safe_load(YamlContent(path))]
    /\ heap' = IF _config # None /\ path \in fs /\ safe_load(YamlContent(path)) # "YAMLError"
               THEN [heap EXCEPT ![_config].val.domain_configs = @ \cup {"research"}]
               ELSE heap
    /\ UNCHANGED <<procs, startEnv, env, dotenv, fs, _config, pc, raw, obj, rets, envChanges, budget>>

LoadYaml(t, path) ==
    /\ pc[t] = "idle"
    /\ yamlRet' = [yamlRet EXCEPT ![t] =
            IF path \notin fs THEN "FileNotFoundError" ELSE safe_load(YamlContent(path))]
    /\ UNCHANGED <<procs, startEnv, env, dotenv, fs, _config, heap, pc, raw, obj, rets, envChanges, budget>>

\* ------------------------------------------------------- the environment
\* A thread outside get_config sets or unsets an environment variable.
SetEnv(t, k, v) ==
    /\ pc[t] = "idle"
    /\ envChanges < MaxEnvChanges
    /\ v # env[k]
    /\ env' = [env EXCEPT ![k] = v]
    /\ envChanges' = envChanges + 1
    /\ UNCHANGED <<procs, startEnv, dotenv, fs, _config, heap, pc, raw, obj, rets, yamlRet, budget>>

\* The credentials file is created or removed.
ToggleCredsFile ==
    /\ envChanges < MaxEnvChanges
    /\ fs' = IF CredsFile \in fs THEN fs \ {CredsFile} ELSE fs \cup {CredsFile}
    /\ envChanges' = envChanges + 1
    /\ UNCHANGED <<procs, startEnv, env, dotenv, _config, heap, pc, raw, obj, rets, yamlRet, budget>>

\* ------------------------------------------------- consumers of the instance
Holds(t) == IF Len(rets[t]) > 0 /\ rets[t][Len(rets[t])].kind = "ok"
            THEN rets[t][Len(rets[t])].ref ELSE None

\* cfg.log_format = v on the instance a thread got from get_config (the model
\* class does not forbid assignment and does not validate it).
SetAttr(t, v) ==
    /\ pc[t] = "idle"
    /\ Holds(t) # None
    /\ heap[Holds(t)].val.log_format # v
    /\ heap' = [heap EXCEPT ![Holds(t)].val.log_format = v]
    /\ UNCHANGED <<procs, startEnv, env, dotenv, fs, _config, pc, raw, obj, rets, yamlRet, envChanges, budget>>

\* cfg.domain_configs[d] = {...} on the instance a thread got from get_config.
SetDomainConfig(t, d) ==
    /\ pc[t] = "idle"
    /\ Holds(t) # None
    /\ d \notin heap[Holds(t)].val.domain_configs
    /\ heap' = [heap EXCEPT ![Holds(t)].val.domain_configs = @ \cup {d}]
    /\ UNCHANGED <<procs, startEnv, env, dotenv, fs, _config, pc, raw, obj, rets, yamlRet, envChanges, budget>>

\* ------------------------------------------------------------ initial states
YamlFiles == {YamlGood, YamlBad}

InitCommon ==
    /\ env = LoadDotenv(startEnv, dotenv)
    /\ _config = None
    /\ heap = <<>>
    /\ pc = [t \in Threads |-> "idle"]
    /\ raw = [t \in Threads |-> NoRaw]
    /\ obj = [t \in Threads |-> None]
    /\ rets = [t \in Threads |-> <<>>]
    /\ yamlRet = [t \in Threads |-> "none"]
    /\ envChanges = 0

\* Keys the .env file may define, each with the value it gives.
DotenvEntries == [EmptyEnv EXCEPT ![K_PROJECT] = "proj2", ![K_COMPAT] = "1.0", ![K_LEVEL] = "DEBUG"]

DotenvFiles == {[k \in EnvKeys |-> IF k \in ks THEN DotenvEntries[k] ELSE Absent] :
                   ks \in SUBSET {K_PROJECT, K_COMPAT, K_LEVEL}}

Opt(k) == {Absent} \cup EnvValues(k)

AllEnvs == {[k \in EnvKeys |->
               CASE k = K_PROJECT -> a [] k = K_CREDS -> b [] k = K_PERF -> c
                 [] k = K_LEVEL -> d [] k = K_FORMAT -> e [] k = K_STRATEGY -> f
                 [] k = K_COMPAT -> g [] k = K_DOMAINS -> h] :
               a \in Opt(K_PROJECT), b \in Opt(K_CREDS), c \in Opt(K_PERF), d \in Opt(K_LEVEL),
               e \in Opt(K_FORMAT), f \in Opt(K_STRATEGY), g \in Opt(K_COMPAT), h \in Opt(K_DOMAINS)}

\* One thread; any start environment, .env file and credentials file.
InitLoad ==
    /\ procs = {1}
    /\ startEnv \in AllEnvs
    /\ dotenv \in DotenvFiles
    /\ fs \in {YamlFiles, YamlFiles \cup {CredsFile}}
    /\ budget = [t \in Threads |-> MaxCalls]
    /\ InitCommon

\* One thread; the environment starts valid or lacking the project id.
InitSeq ==
    /\ procs = {1}
    /\ startEnv \in {ValidEnv, [ValidEnv EXCEPT ![K_PROJECT] = Absent]}
    /\ dotenv = EmptyEnv
    /\ fs \in {YamlFiles, YamlFiles \cup {CredsFile}}
    /\ budget = [t \in Threads |-> MaxCalls]
    /\ InitCommon

\* Several threads; the credentials file exists at start.
InitConc ==
    /\ procs = Threads
    /\ startEnv \in {ValidEnv, [ValidEnv EXCEPT ![K_PROJECT] = Absent]}
    /\ dotenv = EmptyEnv
    /\ fs = YamlFiles \cup {CredsFile}
    /\ budget = [t \in Threads |-> MaxConcCalls]
    /\ InitCommon

\* Several threads in a freshly started process with a valid environment.
InitFresh ==
    /\ procs = Threads
    /\ startEnv \in {ValidEnv, [ValidEnv EXCEPT ![K_COMPAT] = "1.0"]}
    /\ dotenv = EmptyEnv
    /\ fs = YamlFiles \cup {CredsFile}
    /\ budget = [t \in Threads |-> MaxCalls]
    /\ InitCommon

\* ------------------------------------------------------------ next-state
GetConfigStep ==
    \E t \in procs : Call(t) \/ Check(t) \/ Build(t) \/ Validate(t) \/ Assign(t) \/ Return(t)

EnvStep ==
    \/ \E t \in procs, k \in MutableKeys : \E v \in Assigned(k) : SetEnv(t, k, v)
    \/ ToggleCredsFile

YamlStep == \E t \in procs, path \in {YamlGood, YamlBad, YamlMissing} : LoadYaml(t, path)

ConsumerStep ==
    \/ \E t \in procs, v \in {"text", "xml"} : SetAttr(t, v)
    \/ \E t \in procs, d \in {"finance"} : SetDomainConfig(t, d)

NextLoad == GetConfigStep

NextEnv == GetConfigStep \/ EnvStep \/ YamlStep

NextConc == GetConfigStep \/ EnvStep

NextMut == GetConfigStep \/ ConsumerStep

\* Loading: one thread, every input combination, no change after start.
SpecLoad == InitLoad /\ [][NextLoad]_vars

\* One thread calling get_config and load_yaml_config while the environment changes.
SpecSeq == InitSeq /\ [][NextEnv]_vars

\* Several threads, the environment changing.
Spec == InitConc /\ [][NextConc]_vars

\* Several first-time callers, valid environment, nothing else happening.
SpecFresh == InitFresh /\ [][NextLoad]_vars

\* Several threads calling get_config and using the instance they got.
SpecMut == InitFresh /\ [][NextMut]_vars

TypeOK ==
    /\ _config \in 0..Len(heap)
    /\ \A t \in Threads : pc[t] \in {"idle", "check", "build", "validate", "assign", "return"}
    /\ \A t \in Threads : Len(rets[t]) + budget[t] <= MaxCalls

\* ------------------------------------------------------------ properties
Results(t) == {rets[t][i] : i \in 1..Len(rets[t])}

AllResults == UNION {Results(t) : t \in procs}

OkResults == {r \in AllResults : r.kind = "ok"}

\* C1: with one thread, once a get_config call has succeeded every later call
\* returns the same instance as that call, holding the field values it had
\* then, whatever happened to the environment in between.
C1_SameInstance ==
    \A t \in procs : \A i, j \in 1..Len(rets[t]) :
        (i < j /\ rets[t][i].kind = "ok")
            => /\ rets[t][j] = rets[t][i]
               /\ heap[rets[t][i].ref].val = rets[t][i].val

\* Two successful calls, and the environment no longer resolves to what the
\* instance holds.
C1_Witness ==
    \E t \in procs :
        /\ Len(rets[t]) >= 2
        /\ rets[t][1].kind = "ok"
        /\ rets[t][2].kind = "ok"
        /\ envChanges > 0
        /\ BuildValues(env, dotenv)[K_PROJECT] # rets[t][2].val.firebase_project_id

\* C2: concurrent first-time callers in a fresh process with a valid
\* environment all receive the same instance, and ACDSYNConfig() runs once.
C2_OnceForAll ==
    /\ \A r1, r2 \in OkResults : r1.ref = r2.ref
    /\ Len(heap) <= 1

\* C3: the singleton is unset or refers to an instance whose construction and
\* validation completed, and no caller was returned anything else.
C3_NeverPartial ==
    /\ _config # None => heap[_config].complete
    /\ \A r \in OkResults : r.ref # None /\ heap[r.ref].complete /\ r.val # NullVal

\* A thread holds the instance while another thread's constructor is in flight.
C3_Witness ==
    \E t, u \in procs :
        /\ t # u
        /\ pc[t] = "validate"
        /\ ~heap[obj[t]].complete
        /\ Holds(u) # None

\* C4: after construction no operation changes a field of the instance.
C4_Immutable ==
    [][\A i \in 1..Len(heap) : heap[i].complete => heap'[i] = heap[i]]_vars

\* Values the constructor gathers in a process whose environment is as at start.
StartValues == BuildValues(LoadDotenv(startEnv, dotenv), dotenv)

RequiredAbsent == StartValues[K_PROJECT] = Absent \/ StartValues[K_CREDS] = Absent

MissingReported(r) ==
    /\ StartValues[K_PROJECT] = Absent => <<"firebase_project_id", "missing">> \in r.errs
    /\ StartValues[K_CREDS] = Absent => <<"firebase_credentials_path", "missing">> \in r.errs

InUnit(v) == 0 <= v /\ v <= 10

\* C6: every instance get_config returns has both thresholds within [0,1].
C6_ThresholdsInRange ==
    \A r \in OkResults :
        InUnit(r.val.compatibility_threshold) /\ InUnit(r.val.performance_threshold)

LogFormat == {"json", "text"}

\* C7 as stated: every instance get_config returns holds declared variants in
\* log_level, log_format, default_strategy and the keys of domain_configs.
C7_EnumsDeclared ==
    \A r \in OkResults :
        /\ r.val.log_level \in LogLevel
        /\ r.val.log_format \in LogFormat
        /\ r.val.default_strategy \in SynthesisStrategy
        /\ r.val.domain_configs \subseteq DomainType

BadEnumInput ==
    \/ StartValues[K_LEVEL] \notin LogLevel \cup {Absent}
    \/ StartValues[K_STRATEGY] \notin SynthesisStrategy \cup {Absent}
    \/ StartValues[K_DOMAINS] # Absent /\ ~(JsonKeys(StartValues[K_DOMAINS]) \subseteq DomainType)

\* C7 amended: an undeclared log level, default strategy or domain-config key
\* makes the load fail, so a returned instance holds declared variants there;
\* log_format is a plain string and is not checked.
C7_TypedEnumsDeclared ==
    /\ BadEnumInput => _config = None /\ \A r \in AllResults : r.kind = "error"
    /\ \A r \in OkResults :
        /\ r.val.log_level \in LogLevel
        /\ r.val.default_strategy \in SynthesisStrategy
        /\ r.val.domain_configs \subseteq DomainType

\* A load failed on an undeclared log level alone.
C7_Witness ==
    /\ StartValues[K_LEVEL] = "TRACE"
    /\ \E r \in AllResults : r.kind = "error" /\ r.errs = {<<"log_level", "type_error.enum">>}

\* The raw value of key k by precedence: process environment, then .env file.
ByPrecedence(k) ==
    IF startEnv[k] # Absent THEN startEnv[k]
    ELSE IF dotenv[k] # Absent THEN dotenv[k]
    ELSE Absent

\* C8: each field of the instance built by the first successful get_config is
\* the process-environment value if set there, else the .env value if set
\* there, else the built-in default.
C8_Precedence ==
    \A r \in OkResults :
        /\ r.val.firebase_project_id = ByPrecedence(K_PROJECT)
        /\ r.val.firebase_credentials_path = ByPrecedence(K_CREDS)
        /\ r.val.performance_threshold =
             (IF ByPrecedence(K_PERF) = Absent THEN 8 ELSE ParseFloat(ByPrecedence(K_PERF)))
        /\ r.val.log_level = (IF ByPrecedence(K_LEVEL) = Absent THEN "INFO" ELSE ByPrecedence(K_LEVEL))
        /\ r.val.log_format = (IF ByPrecedence(K_FORMAT) = Absent THEN "json" ELSE ByPrecedence(K_FORMAT))
        /\ r.val.default_strategy =
             (IF ByPrecedence(K_STRATEGY) = Absent THEN "hybrid" ELSE ByPrecedence(K_STRATEGY))
        /\ r.val.compatibility_threshold =
             (IF ByPrecedence(K_COMPAT) = Absent THEN 7 ELSE ParseFloat(ByPrecedence(K_COMPAT)))
        /\ r.val.domain_configs =
             (IF ByPrecedence(K_DOMAINS) = Absent THEN {"data_science", "software_engineering"}
              ELSE JsonKeys(ByPrecedence(K_DOMAINS)))

\* An instance with the project id from the .env file, the compatibility
\* threshold from the environment over the file, and the default log format.
C8_Witness ==
    /\ startEnv[K_PROJECT] = Absent /\ dotenv[K_PROJECT] = "proj2"
    /\ startEnv[K_COMPAT] = "0.0" /\ dotenv[K_COMPAT] = "1.0"
    /\ startEnv[K_FORMAT] = Absent
    /\ \E r \in OkResults :
         /\ r.val.firebase_project_id = "proj2"
         /\ r.val.compatibility_threshold = 0
         /\ r.val.log_format = "json"

\* C9: a load_yaml_config call, whatever its outcome, leaves the singleton,
\* the instances and everything get_config reads as they were.
C9_YamlFrame ==
    [][yamlRet' # yamlRet => UNCHANGED <<_config, heap, env, dotenv, fs, pc, raw, obj, rets>>]_vars

\* load_yaml_config has failed on a missing path while the singleton is set.
C9_Witness ==
    /\ _config # None
    /\ \E t \in procs : yamlRet[t] = "FileNotFoundError"

AllFailed(t) == Len(rets[t]) > 0 /\ \A r \in Results(t) : r.kind = "error"

\* C10: with one thread, a get_config that fails leaves the singleton unset,
\* and a call made after only failed ones runs the initialization again.
C10_FailureNotCached ==
    [][\A t \in procs :
         /\ (pc[t] = "validate" /\ pc'[t] = "idle")
              => /\ _config = None /\ _config' = None
                 /\ rets'[t][Len(rets'[t])].kind = "error"
         /\ (pc[t] = "check" /\ AllFailed(t) /\ pc'[t] # pc[t]) => pc'[t] = "build"]_vars

\* A failed call followed by a successful one that cached its instance.
C10_Witness ==
    \E t \in procs :
        /\ Len(rets[t]) >= 2
        /\ rets[t][1].kind = "error"
        /\ rets[t][2].kind = "ok"
        /\ _config = rets[t][2].ref
        /\ Len(heap) >= 2

====
